---- MODULE Spec2Model ----
(***************************************************************************)
(* Model of em_wave.fields: Medium, FieldSnapshot and plane_wave_snapshot. *)
(*                                                                         *)
(* Numbers.  The program computes in binary floating point (Python float   *)
(* and numpy float64).  The model keeps the structure of that arithmetic   *)
(* at a reduced width: a number is an integer count of units of            *)
(* 2^-FracBits whose significand has at most Precision bits, and every     *)
(* operation (+, -, *, /, sin, cos) returns the exact result rounded to    *)
(* the nearest such number, ties to even.  Rounding is symmetric in sign,  *)
(* as in IEEE 754.  Infinities and NaN are not modelled: the inputs are    *)
(* finite and no reachable operation overflows; a division by zero of two  *)
(* Python floats raises ZeroDivisionError, which the model keeps.          *)
(***************************************************************************)
EXTENDS Integers, Sequences, FiniteSets, TLC

VARIABLES
    call,       \* arguments of the last plane_wave_snapshot call
    frame,      \* locals of that call when it left the function
    handed,     \* what the last accessor call returned to the caller
    heap,       \* array storage: address -> ndarray
    snaps,      \* FieldSnapshot objects, holding addresses
    views,      \* row views handed out by components()/magnetic_components()
    writes,     \* number of element writes the caller has made
    anim        \* build_em_wave_animation: its arguments, its closure, the frames drawn

vars == <<call, frame, handed, heap, snaps, views, writes, anim>>

----------------------------------------------------------------------------
(* Floating point at reduced width *)

Precision == 8
FracBits == 9

Unit == 2 ^ FracBits

Abs(n) == IF n < 0 THEN -n ELSE n

\* least e such that num/den < 2^(Precision+e)
RECURSIVE Expo(_, _, _)
Expo(num, den, e) ==
    IF num < den * 2 ^ (Precision + e) THEN e ELSE Expo(num, den, e + 1)

RoundHalfEven(num, den) ==
    LET q == num \div den
        r == num % den
    IN  IF 2 * r < den THEN q
        ELSE IF 2 * r > den THEN q + 1
        ELSE IF q % 2 = 0 THEN q ELSE q + 1

\* num/den (den > 0), rounded to the nearest representable number
Round(num, den) ==
    LET a == Abs(num)
        e == Expo(a, den, 0)
        m == RoundHalfEven(a, den * 2 ^ e) * 2 ^ e
    IN  IF num < 0 THEN -m ELSE m

FAdd(a, b) == Round(a + b, 1)
FSub(a, b) == Round(a - b, 1)
FMul(a, b) == Round(a * b, Unit)
FNeg(a) == -a
\* b # 0: Python raises ZeroDivisionError before dividing
FDiv(a, b) == IF b < 0 THEN Round(-(a * Unit), -b) ELSE Round(a * Unit, b)

\* position of a representable n >= 0 in the ascending list of representable numbers
Ordinal(n) ==
    IF n < 2 ^ Precision THEN n + 1
    ELSE LET e == Expo(n, 1, 0)
         IN  2 ^ Precision + (e - 1) * 2 ^ (Precision - 1)
               + ((n \div 2 ^ e) - 2 ^ (Precision - 1)) + 1

\* sin and cos of every representable number in [0, 32), correctly rounded
SinTable ==
   <<
         0,    1,    2,    3,    4,    5,    6,    7,    8,    9,   10,   11,   12,   13,   14,   15,
        16,   17,   18,   19,   20,   21,   22,   23,   24,   25,   26,   27,   28,   29,   30,   31,
        32,   33,   34,   35,   36,   37,   38,   39,   40,   41,   42,   43,   44,   45,   46,   47,
        48,   49,   50,   51,   52,   53,   54,   55,   56,   57,   58,   59,   60,   61,   62,   63,
        64,   65,   66,   67,   68,   69,   70,   71,   72,   73,   74,   75,   76,   77,   78,   79,
        80,   81,   82,   83,   84,   85,   86,   87,   88,   89,   90,   91,   92,   92,   93,   94,
        95,   96,   97,   98,   99,  100,  101,  102,  103,  104,  105,  106,  107,  108,  109,  110,
       111,  112,  113,  114,  115,  116,  117,  118,  119,  120,  121,  122,  123,  124,  125,  126,
       127,  128,  129,  130,  131,  132,  132,  133,  134,  135,  136,  137,  138,  139,  140,  141,
       142,  143,  144,  145,  146,  147,  148,  149,  150,  151,  152,  153,  154,  155,  156,  156,
       157,  158,  159,  160,  161,  162,  163,  164,  165,  166,  167,  168,  169,  170,  171,  172,
       173,  173,  174,  175,  176,  177,  178,  179,  180,  181,  182,  183,  184,  185,  186,  187,
       188,  188,  189,  190,  191,  192,  193,  194,  195,  196,  197,  198,  199,  200,  200,  201,
       202,  203,  204,  205,  206,  207,  208,  209,  210,  211,  211,  212,  213,  214,  215,  216,
       217,  218,  219,  220,  221,  221,  222,  223,  224,  225,  226,  227,  228,  229,  230,  230,
       231,  232,  233,  234,  235,  236,  237,  238,  238,  239,  240,  241,  242,  243,  244,  245,
       245,  247,  249,  251,  252,  254,  256,  258,  260,  262,  262,  264,  266,  268,  270,  272,
       274,  274,  276,  278,  280,  282,  284,  284,  286,  288,  290,  292,  294,  294,  296,  298,
       300,  302,  302,  304,  306,  308,  310,  310,  312,  314,  316,  318,  318,  320,  322,  324,
       324,  326,  328,  330,  332,  332,  334,  336,  338,  338,  340,  342,  344,  344,  346,  348,
       348,  350,  352,  354,  354,  356,  358,  360,  360,  362,  364,  364,  366,  368,  368,  370,
       372,  374,  374,  376,  378,  378,  380,  382,  382,  384,  386,  386,  388,  390,  390,  392,
       392,  394,  396,  396,  398,  400,  400,  402,  404,  404,  406,  406,  408,  410,  410,  412,
       412,  414,  416,  416,  418,  418,  420,  420,  422,  424,  424,  426,  426,  428,  428,  430,
       430,  432,  436,  438,  440,  442,  444,  446,  448,  450,  452,  452,  454,  456,  458,  460,
       462,  464,  466,  468,  468,  470,  472,  474,  474,  476,  478,  480,  480,  482,  484,  484,
       486,  488,  488,  490,  490,  492,  492,  494,  496,  496,  496,  498,  498,  500,  500,  502,
       502,  502,  504,  504,  506,  506,  506,  506,  508,  508,  508,  508,  510,  510,  510,  510,
       510,  510,  512,  512,  512,  512,  512,  512,  512,  512,  512,  512,  512,  512,  512,  512,
       512,  512,  510,  510,  510,  510,  510,  508,  508,  508,  508,  506,  506,  506,  506,  504,
       504,  504,  502,  502,  500,  500,  498,  498,  498,  496,  496,  494,  494,  492,  490,  490,
       488,  488,  486,  484,  484,  482,  480,  480,  478,  476,  476,  474,  472,  470,  468,  468,
       466,  462,  458,  456,  452,  448,  444,  440,  436,  432,  426,  422,  418,  414,  408,  404,
       398,  394,  388,  382,  378,  372,  366,  360,  356,  350,  344,  338,  332,  326,  320,  312,
       306,  300,  294,  286,  280,  274,  266,  260,  253,  246,  239,  232,  225,  217,  210,  203,
       195,  188,  181,  173,  165,  158,  150,  143,  135,  127,  119,  112,  104,   96,   88,   80,
        72,   64,   56,   48,   40,   32,   24,   16,    8,    0,   -8,  -16,  -23,  -31,  -39,  -47,
       -55,  -63,  -71,  -79,  -87,  -95, -103, -111, -118, -126, -134, -142, -149, -157, -165, -172,
      -180, -187, -194, -202, -209, -216, -224, -231, -238, -245, -252, -258, -266, -272, -280, -286,
      -292, -300, -306, -312, -318, -324, -330, -336, -342, -348, -354, -360, -366, -372, -376, -382,
      -388, -398, -408, -418, -426, -434, -444, -450, -458, -466, -472, -478, -484, -488, -492, -496,
      -500, -504, -506, -508, -510, -512, -512, -512, -512, -510, -510, -508, -506, -502, -500, -496,
      -490, -486, -480, -476, -470, -462, -456, -448, -440, -432, -422, -414, -404, -394, -384, -372,
      -362, -350, -338, -326, -314, -300, -288, -274, -260, -246, -232, -218, -203, -188, -173, -158,
      -143, -128, -112,  -96,  -81,  -65,  -49,  -33,  -17,   -1,   15,   31,   47,   63,   79,   94,
       110,  126,  141,  156,  172,  187,  201,  216,  230,  245,  258,  272,  286,  298,  312,  324,
       336,  348,  360,  372,  382,  392,  402,  412,  422,  430,  438,  446,  454,  462,  468,  474,
       480,  486,  490,  494,  498,  502,  504,  508,  510,  510,  512,  512,  512,  512,  510,  508,
       506,  500,  494,  484,  472,  460,  444,  428,  408,  388,  368,  344,  320,  294,  268,  240,
       211,  181,  151,  120,   89,   57,   25,   -7,  -38,  -70, -102, -133, -164, -194, -223, -251,
      -278, -304, -330, -354, -376, -398, -416, -434, -450, -464, -478, -488, -496, -504, -508, -512,
      -512, -510, -508, -502, -496, -486, -476, -462, -448, -432, -414, -394, -374, -350, -326, -302,
      -274, -247, -219, -189, -159, -129,  -97,  -66,  -34,   -2,   30,   62,   93,  125,  156,  186,
       215,  244,  272,  298,  324,  348,  370,  392,  412,  430,  446,  462,  474,  486,  494,  502,
       508,  510,  512,  512,  508,  504,  498,  490,  478,  466,  452,  436,  418,  400,  378,  356,
       332,  308,  282,  255,  226,  197,  167,  137,  106,   74,   42,   10,  -22,  -53,  -85, -116,
      -147, -207, -264, -316, -364, -406, -442, -470, -492, -506, -512, -510, -500, -482, -456, -424,
      -384, -340, -288, -234, -175, -114,  -51,   13,   77,  139,  200,  256,  310,  358,  402,  438,
       468,  490,  504,  512,  510,  502,  484,  460,  428,  390,  346,  296,  241,  183,  122,   59,
        -5,  -68, -131, -192, -249, -304, -352, -396, -434, -464, -488, -504, -512, -510, -502, -488,
      -464, -432, -396, -352, -302, -249, -191, -131,  -68,   -4,   60,  123,  184,  242,  296,  346,
       390,  428,  460,  484,  502,  510,  512,  504,  490,  468,  438,  400,  358,  310,  256,  199,
       139,   76,   12,  -51, -115, -176, -234, -290, -340, -384, -424, -456, -482, -500, -510, -512,
      -506, -492, -470, -442, -406, -364, -316, -264, -207, -147,  -85,  -21,   43,  106,  168,  227
   >>

CosTable ==
   <<
       512,  512,  512,  512,  512,  512,  512,  512,  512,  512,  512,  512,  512,  512,  512,  512,
       512,  512,  512,  512,  512,  512,  512,  512,  512,  512,  512,  512,  512,  512,  512,  512,
       512,  510,  510,  510,  510,  510,  510,  510,  510,  510,  510,  510,  510,  510,  510,  510,
       510,  510,  510,  510,  510,  510,  510,  510,  508,  508,  508,  508,  508,  508,  508,  508,
       508,  508,  508,  508,  508,  508,  508,  508,  506,  506,  506,  506,  506,  506,  506,  506,
       506,  506,  506,  506,  506,  504,  504,  504,  504,  504,  504,  504,  504,  504,  504,  504,
       504,  502,  502,  502,  502,  502,  502,  502,  502,  502,  502,  500,  500,  500,  500,  500,
       500,  500,  500,  500,  498,  498,  498,  498,  498,  498,  498,  498,  498,  496,  496,  496,
       496,  496,  496,  496,  496,  494,  494,  494,  494,  494,  494,  494,  492,  492,  492,  492,
       492,  492,  492,  492,  490,  490,  490,  490,  490,  490,  490,  488,  488,  488,  488,  488,
       488,  486,  486,  486,  486,  486,  486,  486,  484,  484,  484,  484,  484,  484,  482,  482,
       482,  482,  482,  482,  480,  480,  480,  480,  480,  478,  478,  478,  478,  478,  478,  476,
       476,  476,  476,  476,  474,  474,  474,  474,  474,  474,  472,  472,  472,  472,  472,  470,
       470,  470,  470,  470,  468,  468,  468,  468,  468,  466,  466,  466,  466,  466,  464,  464,
       464,  464,  462,  462,  462,  462,  462,  460,  460,  460,  460,  460,  458,  458,  458,  458,
       456,  456,  456,  456,  454,  454,  454,  454,  454,  452,  452,  452,  452,  450,  450,  450,
       450,  448,  448,  446,  446,  444,  444,  442,  442,  440,  440,  438,  438,  436,  436,  434,
       434,  432,  430,  430,  428,  428,  426,  426,  424,  424,  422,  420,  420,  418,  418,  416,
       416,  414,  412,  412,  410,  410,  408,  406,  406,  404,  404,  402,  400,  400,  398,  396,
       396,  394,  394,  392,  390,  390,  388,  386,  386,  384,  382,  382,  380,  378,  378,  376,
       374,  374,  372,  370,  370,  368,  366,  364,  364,  362,  360,  360,  358,  356,  354,  354,
       352,  350,  350,  348,  346,  344,  344,  342,  340,  338,  338,  336,  334,  332,  332,  330,
       328,  326,  326,  324,  322,  320,  318,  318,  316,  314,  312,  312,  310,  308,  306,  304,
       304,  302,  300,  298,  296,  294,  294,  292,  290,  288,  286,  284,  284,  282,  280,  278,
       276,  274,  270,  266,  264,  260,  256,  253,  249,  246,  242,  239,  235,  232,  228,  224,
       221,  217,  214,  210,  206,  203,  199,  195,  191,  188,  184,  180,  177,  173,  169,  165,
       161,  158,  154,  150,  146,  142,  139,  135,  131,  127,  123,  119,  115,  111,  107,  104,
       100,   96,   92,   88,   84,   80,   76,   72,   68,   64,   60,   56,   52,   48,   44,   40,
        36,   32,   28,   24,   20,   16,   12,    8,    4,    0,   -4,   -8,  -12,  -16,  -20,  -24,
       -28,  -32,  -36,  -40,  -44,  -48,  -52,  -56,  -60,  -64,  -68,  -72,  -75,  -79,  -83,  -87,
       -91,  -95,  -99, -103, -107, -111, -115, -119, -123, -126, -130, -134, -138, -142, -146, -150,
      -153, -157, -161, -165, -169, -172, -176, -180, -184, -187, -191, -195, -198, -202, -206, -209,
      -213, -220, -228, -235, -242, -249, -256, -262, -270, -276, -282, -290, -296, -302, -310, -316,
      -322, -328, -334, -340, -346, -352, -358, -364, -368, -374, -380, -386, -390, -396, -400, -406,
      -410, -414, -420, -424, -428, -432, -438, -442, -446, -450, -452, -456, -460, -464, -466, -470,
      -474, -476, -480, -482, -484, -488, -490, -492, -494, -496, -498, -500, -502, -502, -504, -506,
      -506, -508, -508, -510, -510, -510, -512, -512, -512, -512, -512, -512, -512, -512, -510, -510,
      -508, -508, -508, -506, -504, -504, -502, -500, -498, -496, -494, -492, -490, -488, -484, -482,
      -480, -476, -474, -470, -468, -464, -460, -456, -454, -450, -446, -442, -438, -434, -430, -424,
      -420, -416, -410, -406, -402, -396, -390, -386, -380, -374, -370, -364, -358, -352, -346, -340,
      -334, -322, -310, -296, -284, -270, -256, -243, -228, -214, -199, -184, -169, -154, -139, -124,
      -108,  -92,  -76,  -61,  -45,  -29,  -13,    3,   19,   35,   51,   67,   83,   99,  114,  130,
       145,  161,  176,  191,  205,  220,  234,  248,  262,  276,  290,  302,  314,  328,  340,  352,
       362,  374,  384,  396,  406,  414,  424,  432,  440,  448,  456,  464,  470,  476,  482,  486,
       492,  496,  500,  502,  506,  508,  510,  510,  512,  512,  512,  512,  510,  508,  506,  504,
       500,  496,  492,  488,  482,  476,  470,  464,  458,  450,  442,  434,  424,  416,  406,  396,
       386,  376,  364,  352,  342,  328,  316,  304,  290,  278,  264,  250,  236,  222,  207,  192,
       177,  162,  147,  132,  116,  101,   85,   69,   53,   37,   21,    5,  -11,  -27,  -43,  -59,
       -74, -106, -137, -168, -198, -227, -255, -282, -308, -334, -356, -380, -400, -418, -436, -452,
      -466, -478, -490, -498, -504, -508, -512, -512, -510, -508, -502, -494, -486, -474, -460, -446,
      -430, -412, -392, -370, -348, -324, -298, -272, -243, -215, -185, -155, -124,  -93,  -62,  -30,
         2,   34,   66,   98,  129,  160,  190,  219,  247,  274,  302,  326,  350,  374,  394,  414,
       432,  448,  462,  476,  486,  496,  502,  508,  510,  512,  512,  508,  504,  496,  488,  478,
       464,  450,  434,  416,  396,  376,  354,  330,  304,  278,  251,  223,  193,  163,  133,  102,
        70,   38,    6,  -26,  -58,  -89, -121, -151, -182, -211, -240, -268, -294, -320, -344, -368,
      -388, -408, -428, -444, -460, -472, -484, -494, -500, -506, -510, -512, -512, -510, -504, -498,
      -490, -468, -438, -402, -360, -312, -258, -201, -141,  -78,  -15,   49,  112,  174,  232,  288,
       338,  384,  422,  456,  482,  500,  510,  512,  506,  492,  472,  442,  408,  366,  318,  266,
       209,  149,   87,   23,  -41, -104, -166, -225, -280, -332, -378, -418, -452, -478, -498, -508,
      -512, -508, -494, -474, -448, -412, -372, -324, -272, -217, -157,  -95,  -32,   32,   96,  158,
       217,  274,  326,  372,  412,  448,  474,  496,  508,  512,  508,  498,  478,  452,  418,  378,
       332,  280,  224,  165,  103,   40,  -24,  -87, -150, -209, -266, -318, -366, -408, -444, -472,
      -492, -506, -512, -510, -500, -480, -456, -422, -384, -338, -288, -232, -173, -112,  -49,   15,
        79,  141,  202,  258,  312,  360,  402,  438,  468,  490,  504,  512,  510,  500,  484,  458
   >>

Sin(a) == IF a < 0 THEN -SinTable[Ordinal(-a)] ELSE SinTable[Ordinal(a)]
Cos(a) == CosTable[Ordinal(Abs(a))]

\* np.pi
Pi == Round(31416 * Unit, 10000)

----------------------------------------------------------------------------
(* Medium *)

Medium(name, refractive_index) ==
    [name |-> name, refractive_index |-> refractive_index]

VACUUM == Medium("Vacuum", Unit)
GLASS == Medium("Glass", Round(15 * Unit, 10))
DIAMOND == Medium("Diamond", Round(24 * Unit, 10))

\* Medium.propagation_speed_relative: 1.0 / refractive_index, two Python floats
SpeedRaises(medium) == medium.refractive_index = 0
propagation_speed_relative(medium) == FDiv(Unit, medium.refractive_index)

----------------------------------------------------------------------------
(* ndarray values: a shape and the elements in row-major order *)

NdArray(shape, data) == [shape |-> shape, data |-> data]
Array1D(data) == NdArray(<<Len(data)>>, data)
ndim(a) == Len(a.shape)
size(a) == Len(a.data)

\* Python index i of a 3-row matrix
Row(i) == i + 1

\* np.zeros((3, n))
Zeros(n) == [r \in 1..3 |-> [i \in 1..n |-> 0]]

----------------------------------------------------------------------------
(* plane_wave_snapshot *)

Modes == {"linear-y", "linear-z", "circular-right", "circular-left"}

\* k = 2 * np.pi / wavelength
WaveRaises(wavelength) == wavelength = 0
WaveNumber(wavelength) == FDiv(FMul(2 * Unit, Pi), wavelength)

\* omega = k * propagation_speed
Omega(k, propagation_speed) == FMul(k, propagation_speed)

\* Argument with the time term added instead of subtracted
Argument_PlusTime(k, omega, xs, time, phase) ==
    [i \in 1..Len(xs) |-> FAdd(FAdd(FMul(k, xs[i]), FMul(omega, time)), phase)]

\* argument = k * positions - omega * time + phase, element by element
Argument(k, omega, xs, time, phase) ==
    [i \in 1..Len(xs) |-> FAdd(FSub(FMul(k, xs[i]), FMul(omega, time)), phase)]

SinOf(argument) == [i \in 1..Len(argument) |-> Sin(argument[i])]
CosOf(argument) == [i \in 1..Len(argument) |-> Cos(argument[i])]
Scale(c, row) == [i \in 1..Len(row) |-> FMul(c, row[i])]

\* FillElectric with the minus sign of circular-left Ez forgotten
FillElectric_NoSign(polarization, A, argument) ==
    LET zero == Zeros(Len(argument))
    IN  CASE polarization = "linear-y" ->
               [zero EXCEPT ![Row(1)] = Scale(A, SinOf(argument))]
          [] polarization = "linear-z" ->
               [zero EXCEPT ![Row(2)] = Scale(A, SinOf(argument))]
          [] polarization \in {"circular-right", "circular-left"} ->
               [zero EXCEPT ![Row(1)] = Scale(A, CosOf(argument)),
                            ![Row(2)] = Scale(A, SinOf(argument))]
          [] OTHER -> zero

\* FillElectric with np.cos used for both circular components
FillElectric_CosTwice(polarization, A, argument) ==
    LET zero == Zeros(Len(argument))
    IN  CASE polarization = "linear-y" ->
               [zero EXCEPT ![Row(1)] = Scale(A, SinOf(argument))]
          [] polarization = "linear-z" ->
               [zero EXCEPT ![Row(2)] = Scale(A, SinOf(argument))]
          [] polarization = "circular-right" ->
               [zero EXCEPT ![Row(1)] = Scale(A, CosOf(argument)),
                            ![Row(2)] = Scale(A, CosOf(argument))]
          [] polarization = "circular-left" ->
               [zero EXCEPT ![Row(1)] = Scale(A, CosOf(argument)),
                            ![Row(2)] = Scale(FNeg(A), CosOf(argument))]
          [] OTHER -> zero

\* FillElectric with the linear-y row written one index too low
FillElectric_RowSlip(polarization, A, argument) ==
    LET zero == Zeros(Len(argument))
    IN  CASE polarization = "linear-y" ->
               [zero EXCEPT ![Row(0)] = Scale(A, SinOf(argument))]
          [] polarization = "linear-z" ->
               [zero EXCEPT ![Row(2)] = Scale(A, SinOf(argument))]
          [] polarization = "circular-right" ->
               [zero EXCEPT ![Row(1)] = Scale(A, CosOf(argument)),
                            ![Row(2)] = Scale(A, SinOf(argument))]
          [] polarization = "circular-left" ->
               [zero EXCEPT ![Row(1)] = Scale(A, CosOf(argument)),
                            ![Row(2)] = Scale(FNeg(A), SinOf(argument))]
          [] OTHER -> zero

\* the if/elif chain that fills the rows of electric
FillElectric(polarization, A, argument) ==
    LET zero == Zeros(Len(argument))
    IN  CASE polarization = "linear-y" ->
               [zero EXCEPT ![Row(1)] = Scale(A, SinOf(argument))]
          [] polarization = "linear-z" ->
               [zero EXCEPT ![Row(2)] = Scale(A, SinOf(argument))]
          [] polarization = "circular-right" ->
               [zero EXCEPT ![Row(1)] = Scale(A, CosOf(argument)),
                            ![Row(2)] = Scale(A, SinOf(argument))]
          [] polarization = "circular-left" ->
               [zero EXCEPT ![Row(1)] = Scale(A, CosOf(argument)),
                            ![Row(2)] = Scale(FNeg(A), SinOf(argument))]
          [] OTHER -> zero

\* FillMagnetic with the amplitude multiplied by the speed instead of divided
FillMagnetic_TimesSpeed(polarization, A, v, argument) ==
    LET zero == Zeros(Len(argument))
    IN  CASE polarization = "linear-y" ->
               [zero EXCEPT ![Row(2)] = Scale(FMul(A, v), SinOf(argument))]
          [] polarization = "linear-z" ->
               [zero EXCEPT ![Row(1)] = Scale(FNeg(FMul(A, v)), SinOf(argument))]
          [] polarization = "circular-right" ->
               [zero EXCEPT ![Row(1)] = Scale(FNeg(FMul(A, v)), SinOf(argument)),
                            ![Row(2)] = Scale(FMul(A, v), CosOf(argument))]
          [] polarization = "circular-left" ->
               [zero EXCEPT ![Row(1)] = Scale(FMul(A, v), SinOf(argument)),
                            ![Row(2)] = Scale(FMul(A, v), CosOf(argument))]
          [] OTHER -> zero

\* FillMagnetic with the circular-left branch copied from circular-right
FillMagnetic_CopiedBranch(polarization, A, v, argument) ==
    LET zero == Zeros(Len(argument))
    IN  CASE polarization = "linear-y" ->
               [zero EXCEPT ![Row(2)] = Scale(FDiv(A, v), SinOf(argument))]
          [] polarization = "linear-z" ->
               [zero EXCEPT ![Row(1)] = Scale(FNeg(FDiv(A, v)), SinOf(argument))]
          [] polarization \in {"circular-right", "circular-left"} ->
               [zero EXCEPT ![Row(1)] = Scale(FNeg(FDiv(A, v)), SinOf(argument)),
                            ![Row(2)] = Scale(FDiv(A, v), CosOf(argument))]
          [] OTHER -> zero

\* the if/elif chain that fills the rows of magnetic
FillMagnetic(polarization, A, v, argument) ==
    LET zero == Zeros(Len(argument))
    IN  CASE polarization = "linear-y" ->
               [zero EXCEPT ![Row(2)] = Scale(FDiv(A, v), SinOf(argument))]
          [] polarization = "linear-z" ->
               [zero EXCEPT ![Row(1)] = Scale(FNeg(FDiv(A, v)), SinOf(argument))]
          [] polarization = "circular-right" ->
               [zero EXCEPT ![Row(1)] = Scale(FNeg(FDiv(A, v)), SinOf(argument)),
                            ![Row(2)] = Scale(FDiv(A, v), CosOf(argument))]
          [] polarization = "circular-left" ->
               [zero EXCEPT ![Row(1)] = Scale(FDiv(A, v), SinOf(argument)),
                            ![Row(2)] = Scale(FDiv(A, v), CosOf(argument))]
          [] OTHER -> zero

\* FieldSnapshot(positions=positions, electric=electric, magnetic=magnetic)
FieldSnapshot(positions, electric, magnetic) ==
    [positions |-> positions, electric |-> electric, magnetic |-> magnetic]

NoSnapshot == FieldSnapshot(NdArray(<<>>, <<>>), <<>>, <<>>)

\* the locals of a call that raised at the given line, with what it had assigned
Raised(error, assigned) ==
    [outcome |-> error, assigned |-> assigned, result |-> NoSnapshot]

\* the shape test turned into a test for rank 0 only
ShapeRejected_ScalarOnly(args) == ndim(args.positions) = 0

\* the first validation: positions.ndim != 1
ShapeRejected(args) == ndim(args.positions) # 1

\* the polarization test left out
PolarizationRejected_Missing(args) == FALSE

\* the polarization test with "circular-left" misspelt in the list
PolarizationRejected_Typo(args) == args.polarization \notin Modes \ {"circular-left"}

\* the second validation: polarization not in the list of modes
PolarizationRejected(args) == args.polarization \notin Modes

\* the whole function: the state of the call when it returns or raises
plane_wave_snapshot(args) ==
    IF ShapeRejected(args) THEN Raised("ValueError: shape", {})
    ELSE IF PolarizationRejected(args) THEN Raised("ValueError: polarization", {})
    ELSE IF WaveRaises(args.wavelength) THEN Raised("ZeroDivisionError", {})
    ELSE IF SpeedRaises(args.medium) THEN Raised("ZeroDivisionError", {"k"})
    ELSE
      LET k == WaveNumber(args.wavelength)
          propagation_speed == propagation_speed_relative(args.medium)
          omega == Omega(k, propagation_speed)
          argument == Argument(k, omega, args.positions.data, args.time, args.phase)
          electric == FillElectric(args.polarization, args.electric_amplitude, argument)
          magnetic == FillMagnetic(args.polarization, args.electric_amplitude,
                                   propagation_speed, argument)
      IN  [outcome |-> "returned",
           assigned |-> {"k", "propagation_speed", "omega", "argument",
                         "electric", "magnetic"},
           result |-> FieldSnapshot(args.positions, electric, magnetic)]

\* FieldSnapshot.components(): the rows of electric
components(snapshot) == [i \in 1..3 |-> snapshot.electric[i]]

\* FieldSnapshot.magnetic_components(): the rows of magnetic
magnetic_components(snapshot) == [i \in 1..3 |-> snapshot.magnetic[i]]

----------------------------------------------------------------------------
(* Inputs *)

MaxLen == 2
MaxArrays == 2
MaxSnaps == 2
MaxWrites == 2

RECURSIVE SeqsOfLen(_, _)
SeqsOfLen(S, n) ==
    IF n = 0 THEN {<<>>}
    ELSE {Append(q, x) : q \in SeqsOfLen(S, n - 1), x \in S}

SeqsUpTo(S, n) == UNION {SeqsOfLen(S, m) : m \in 0..n}

\* sample coordinates: 0, 1/4, 1 and np.pi / 2
Xs == {0, Unit \div 4, Unit, FDiv(Pi, 2 * Unit)}

\* flat arrays, and arrays of rank 2 and rank 0 over a coarser grid
Positions1D == {Array1D(d) : d \in SeqsUpTo(Xs, MaxLen)}
PositionsOther ==
    {NdArray(<<1, Len(d)>>, d) : d \in SeqsUpTo({0, Unit}, MaxLen) \ {<<>>}}
      \cup {NdArray(<<>>, <<x>>) : x \in {0, Unit}}

Times == {0, Unit \div 2, Unit}
Phases == {0, Round(3 * Unit, 10)}
Wavelengths == {0, Unit, FMul(2 * Unit, Pi)}
Amplitudes == {Unit, Round(25 * Unit, 10)}
\* refractive_index=1/3.0 is the medium of test_plane_wave_amplitudes_and_phase
Mediums == {VACUUM, GLASS, Medium("test", FDiv(Unit, 3 * Unit)), Medium("void", 0)}
Polarizations == Modes \cup {"elliptical"}

Args(positions, time, phase, wavelength, electric_amplitude, medium, polarization) ==
    [positions |-> positions, time |-> time, phase |-> phase,
     wavelength |-> wavelength, electric_amplitude |-> electric_amplitude,
     medium |-> medium, polarization |-> polarization]

NotCalled == Raised("none", {})

\* no animation has been asked for
NoAnimation == [pc |-> "none"]
NothingHanded == [by |-> "none", rows |-> <<>>]

----------------------------------------------------------------------------
(* The evaluator and its accessors, one call at a time *)

\* every argument list a caller may have prepared
AllArgs ==
    {Args(positions, time, phase, wavelength, electric_amplitude, medium, polarization) :
        positions \in Positions1D \cup PositionsOther, time \in Times,
        phase \in Phases, wavelength \in Wavelengths,
        electric_amplitude \in Amplitudes, medium \in Mediums,
        polarization \in Polarizations}

\* the caller holds its arguments; nothing has been called
Init ==
    /\ call \in AllArgs
    /\ frame = NotCalled
    /\ handed = NothingHanded
    /\ heap = <<>>
    /\ snaps = <<>>
    /\ views = {}
    /\ writes = 0
    /\ anim = NoAnimation

\* plane_wave_snapshot(**call) runs to its return or its raise
Call ==
    /\ frame.outcome = "none"
    /\ frame' = plane_wave_snapshot(call)
    /\ UNCHANGED <<call, handed, heap, snaps, views, writes, anim>>

Components ==
    /\ frame.outcome = "returned"
    /\ handed' = [by |-> "components", rows |-> components(frame.result)]
    /\ UNCHANGED <<call, frame, heap, snaps, views, writes, anim>>

MagneticComponents ==
    /\ frame.outcome = "returned"
    /\ handed' = [by |-> "magnetic_components",
                  rows |-> magnetic_components(frame.result)]
    /\ UNCHANGED <<call, frame, heap, snaps, views, writes, anim>>

Next == Call \/ Components \/ MagneticComponents

Spec == Init /\ [][Next]_vars

----------------------------------------------------------------------------
(* Snapshots as objects: arrays live in the heap and are held by address *)

\* a 3 x n matrix as an ndarray, rows one after the other
AsNdArray(matrix) ==
    NdArray(<<3, Len(matrix[1])>>, matrix[1] \o matrix[2] \o matrix[3])

\* the arrays the caller made itself: all but the matrices of the snapshots
CallerArrays ==
    {a \in 1..Len(heap) :
        \A s \in 1..Len(snaps) : a \notin {snaps[s].electric, snaps[s].magnetic}}

\* what the caller passes besides positions, time and polarization
HeapArgs(positions, time, polarization) ==
    Args(positions, time, 0, FMul(2 * Unit, Pi), Unit, VACUUM, polarization)

InitHeap ==
    /\ call = HeapArgs(Array1D(<<>>), 0, "linear-y")
    /\ frame = NotCalled
    /\ handed = NothingHanded
    /\ heap = <<>>
    /\ snaps = <<>>
    /\ views = {}
    /\ writes = 0
    /\ anim = NoAnimation

\* the arrays the caller builds, and the value it writes into arrays
HeapPositions == {Array1D(<<0>>), Array1D(<<0, Unit>>)}
Written == {Unit}

\* the caller builds a positions array (np.linspace, np.array)
NewPositions ==
    \E d \in {p.data : p \in HeapPositions} :
        /\ Cardinality(CallerArrays) < MaxArrays
        /\ heap' = Append(heap, Array1D(d))
        /\ UNCHANGED <<call, frame, handed, snaps, views, writes, anim>>

\* plane_wave_snapshot on an array of the caller: np.zeros allocates electric
\* and magnetic, and the snapshot keeps the caller's positions object itself
SnapshotCall ==
    \E a \in CallerArrays, time \in {0, Unit \div 2},
       polarization \in {"linear-y", "circular-right"} :
        LET done == plane_wave_snapshot(HeapArgs(heap[a], time, polarization))
        IN  /\ Len(snaps) < MaxSnaps
            /\ done.outcome = "returned"
            /\ heap' = heap \o <<AsNdArray(done.result.electric),
                                 AsNdArray(done.result.magnetic)>>
            /\ snaps' = Append(snaps, FieldSnapshot(a, Len(heap) + 1, Len(heap) + 2))
            /\ UNCHANGED <<call, frame, handed, views, writes, anim>>

\* snapshot.components(): self.electric[i] is a view of row i, not a copy
ComponentsViews ==
    \E s \in 1..Len(snaps) :
        /\ views' = views \cup {[base |-> snaps[s].electric, row |-> r] : r \in 0..2}
        /\ UNCHANGED <<call, frame, handed, heap, snaps, writes, anim>>

\* snapshot.magnetic_components(): self.magnetic[i] is a view of row i
MagneticViews ==
    \E s \in 1..Len(snaps) :
        /\ views' = views \cup {[base |-> snaps[s].magnetic, row |-> r] : r \in 0..2}
        /\ UNCHANGED <<call, frame, handed, heap, snaps, writes, anim>>

\* the caller assigns an element of one of its positions arrays
WritePositions ==
    \E a \in CallerArrays, x \in Written :
        \E i \in 1..size(heap[a]) :
            /\ writes < MaxWrites
            /\ writes' = writes + 1
            /\ heap' = [heap EXCEPT ![a].data[i] = x]
            /\ UNCHANGED <<call, frame, handed, snaps, views, anim>>

\* the caller assigns an element of an array it got from an accessor
WriteView ==
    \E v \in views, x \in Written :
        \E i \in 1..heap[v.base].shape[2] :
            /\ writes < MaxWrites
            /\ writes' = writes + 1
            /\ heap' = [heap EXCEPT ![v.base].data[v.row * heap[v.base].shape[2] + i] = x]
            /\ UNCHANGED <<call, frame, handed, snaps, views, anim>>

NextHeap ==
    \/ NewPositions
    \/ SnapshotCall
    \/ ComponentsViews
    \/ MagneticViews
    \/ WritePositions
    \/ WriteView

SpecHeap == InitHeap /\ [][NextHeap]_vars

\* C10: a snapshot is immutable after construction: once returned, its
\* positions, electric and magnetic values never change under later calls and
\* caller writes to the input array or to arrays handed out by the accessors.
C10_Immutable ==
    [][\A s \in 1..Len(snaps) :
          /\ heap'[snaps[s].positions] = heap[snaps[s].positions]
          /\ heap'[snaps[s].electric] = heap[snaps[s].electric]
          /\ heap'[snaps[s].magnetic] = heap[snaps[s].magnetic]]_vars

\* C10, the part about sharing: two snapshots from different calls have
\* different electric and magnetic arrays, and no positions array is a field array.
C10_FreshFieldStorage ==
    \A s, t \in 1..Len(snaps) :
        /\ snaps[s].electric # snaps[s].magnetic
        /\ snaps[s].positions \notin {snaps[t].electric, snaps[t].magnetic}
        /\ s # t => {snaps[s].electric, snaps[s].magnetic}
                       \cap {snaps[t].electric, snaps[t].magnetic} = {}

----------------------------------------------------------------------------
(* Claims about a single call *)

Called == frame.outcome # "none"
Returned == frame.outcome = "returned"
Samples == 1..Len(call.positions.data)
Flat == ndim(call.positions) = 1

\* the quantities the polarization table is written in
TableV == propagation_speed_relative(call.medium)
TableTheta(i) ==
    LET k == WaveNumber(call.wavelength)
    IN  FAdd(FSub(FMul(k, call.positions.data[i]),
                  FMul(Omega(k, TableV), call.time)),
             call.phase)
TableAs(i) == FMul(call.electric_amplitude, Sin(TableTheta(i)))
TableAc(i) == FMul(call.electric_amplitude, Cos(TableTheta(i)))
TableBs(i) == FMul(FDiv(call.electric_amplitude, TableV), Sin(TableTheta(i)))
TableBc(i) == FMul(FDiv(call.electric_amplitude, TableV), Cos(TableTheta(i)))

\* the row of the table for a mode: Ey, Ez, By, Bz at sample i
Table(polarization, i) ==
    CASE polarization = "linear-y" ->
           [Ey |-> TableAs(i), Ez |-> 0, By |-> 0, Bz |-> TableBs(i)]
      [] polarization = "linear-z" ->
           [Ey |-> 0, Ez |-> TableAs(i), By |-> -TableBs(i), Bz |-> 0]
      [] polarization = "circular-right" ->
           [Ey |-> TableAc(i), Ez |-> TableAs(i), By |-> -TableBs(i), Bz |-> TableBc(i)]
      [] polarization = "circular-left" ->
           [Ey |-> TableAc(i), Ez |-> -TableAs(i), By |-> TableBs(i), Bz |-> TableBc(i)]

Ey(i) == frame.result.electric[Row(1)][i]
Ez(i) == frame.result.electric[Row(2)][i]
By(i) == frame.result.magnetic[Row(1)][i]
Bz(i) == frame.result.magnetic[Row(2)][i]

\* C1: a returned snapshot's Ey, Ez, By, Bz rows are those of the polarization
\* table at every sample point, and the rows the table marks 0 are exactly 0.
C1_PolarizationTable ==
    Returned =>
        \A i \in Samples :
            LET row == Table(call.polarization, i)
            IN  /\ Ey(i) = row.Ey
                /\ Ez(i) = row.Ez
                /\ By(i) = row.By
                /\ Bz(i) = row.Bz

\* a circular-left snapshot in a medium slower than vacuum with a nonzero By
C1_Witness ==
    /\ Returned
    /\ call.polarization = "circular-left"
    /\ call.medium = GLASS
    /\ \E i \in Samples : By(i) > 0 /\ Ez(i) < 0

\* C2: a returned snapshot has 3 rows of len(positions) columns in electric and
\* in magnetic, and row 0 of both is exactly zero at every sample point.
C2_Transverse ==
    Returned =>
        /\ Len(frame.result.electric) = 3
        /\ Len(frame.result.magnetic) = 3
        /\ \A r \in 1..3 :
              /\ Len(frame.result.electric[r]) = size(call.positions)
              /\ Len(frame.result.magnetic[r]) = size(call.positions)
        /\ \A i \in Samples :
              /\ frame.result.electric[Row(0)][i] = 0
              /\ frame.result.magnetic[Row(0)][i] = 0

\* a linear-y snapshot of two samples whose Ey is not zero
C2_Witness ==
    /\ Returned
    /\ call.polarization = "linear-y"
    /\ Len(call.positions.data) = 2
    /\ \E i \in Samples : Ey(i) # 0

\* C3 as stated: an unrecognized polarization is rejected with the
\* invalid-polarization error, before any computation and with no snapshot.
C3_AsStated ==
    (Called /\ call.polarization \notin Modes) =>
        /\ frame.outcome = "ValueError: polarization"
        /\ frame.assigned = {}
        /\ frame.result = NoSnapshot

\* C3 amended: an unrecognized polarization is rejected before any computation
\* and with no snapshot; the error is the invalid-polarization error when
\* positions is one-dimensional and the invalid-shape error otherwise.
C3_Amended ==
    (Called /\ call.polarization \notin Modes) =>
        /\ frame.outcome =
              IF Flat THEN "ValueError: polarization" ELSE "ValueError: shape"
        /\ frame.assigned = {}
        /\ frame.result = NoSnapshot

\* "elliptical" on a flat array of samples, rejected for its polarization
C3_Witness ==
    /\ call.polarization = "elliptical"
    /\ Flat
    /\ Len(call.positions.data) > 0
    /\ frame.outcome = "ValueError: polarization"

\* C4: positions that is not one-dimensional is rejected with the invalid-shape
\* error and no snapshot, whatever the other arguments, an unrecognized
\* polarization included.
C4_ShapeRejected ==
    (Called /\ ~Flat) =>
        /\ frame.outcome = "ValueError: shape"
        /\ frame.result = NoSnapshot

\* a rank-2 positions together with "elliptical", rejected for its shape
C4_Witness ==
    /\ ndim(call.positions) = 2
    /\ call.polarization = "elliptical"
    /\ frame.outcome = "ValueError: shape"

----------------------------------------------------------------------------
(* Claims about amplitudes and about pairs of calls *)

Circular == call.polarization \in {"circular-right", "circular-left"}

\* A / v as the claims write it
TableB == FDiv(call.electric_amplitude, TableV)

\* the magnetic rows a mode writes
UsedB ==
    CASE call.polarization = "linear-y" -> {Row(2)}
      [] call.polarization = "linear-z" -> {Row(1)}
      [] OTHER -> {Row(1), Row(2)}

\* max(|row|) over the sample points of a nonempty row
MaxAbs(row) ==
    CHOOSE m \in {Abs(row[i]) : i \in 1..Len(row)} :
        \A i \in 1..Len(row) : Abs(row[i]) <= m

\* a and b agree to a relative error of 16 units of roundoff, 2^-(Precision - 4)
Close(a, b) == Abs(a - b) * 2 ^ (Precision - 4) <= Abs(b)

\* the trigonometric factor of a magnetic row at sample i
TrigOfB(r, i) ==
    IF Circular /\ r = Row(2) THEN Cos(TableTheta(i)) ELSE Sin(TableTheta(i))

\* C6 as stated: for every mode, the maximum over the sample points of the
\* absolute value of each magnetic component the mode uses equals A / v within
\* floating-point tolerance.
C6_AsStated ==
    (Returned /\ Samples # {}) =>
        \A r \in UsedB : Close(MaxAbs(frame.result.magnetic[r]), TableB)

\* C6 amended: for every mode, no sample of a magnetic component the mode uses
\* exceeds |A / v| in absolute value, and the maximum equals |A / v| when some
\* sample point has |sin(theta)| = 1 (|cos(theta)| = 1 for Bz of a circular mode).
C6_Amended ==
    Returned =>
        \A r \in UsedB :
            /\ \A i \in Samples : Abs(frame.result.magnetic[r][i]) <= Abs(TableB)
            /\ (\E i \in Samples : Abs(TrigOfB(r, i)) = Unit) =>
                  MaxAbs(frame.result.magnetic[r]) = Abs(TableB)

\* a linear-y snapshot in a medium other than vacuum with one sample on the
\* crest of the sine and one off it
C6_Witness ==
    /\ Returned
    /\ call.polarization = "linear-y"
    /\ call.medium.refractive_index # Unit
    /\ \E i \in Samples : Abs(Sin(TableTheta(i))) = Unit
    /\ \E i \in Samples : Abs(Bz(i)) < Abs(TableB)
    /\ MaxAbs(frame.result.magnetic[Row(2)]) = Abs(TableB)

\* omega of the phase-shift claim: (2*pi / wavelength) * v
ShiftOmega == FMul(WaveNumber(call.wavelength), TableV)

\* the same call at time 0 with the phase p - omega * t
Shifted ==
    [call EXCEPT !.time = 0, !.phase = FSub(call.phase, FMul(ShiftOmega, call.time))]

\* the largest term of the phase argument over the samples, at least 1
ArgumentScale ==
    LET k == WaveNumber(call.wavelength)
        terms == {Unit, Abs(FMul(ShiftOmega, call.time)), Abs(call.phase)}
                   \cup {Abs(FMul(k, call.positions.data[i])) : i \in Samples}
    IN  CHOOSE m \in terms : \A t \in terms : t <= m

\* a and b, values of amplitude amp, agree to 16 units of roundoff of the
\* largest term of the phase argument
CloseInPhase(a, b, amp) ==
    Abs(a - b) * Unit * 2 ^ (Precision - 4) <= Abs(amp) * ArgumentScale

\* C7 as stated: the call at (time t, phase p) returns the same electric and
\* magnetic matrices as the call at (time 0, phase p - omega * t).
C7_AsStated ==
    Returned =>
        LET other == plane_wave_snapshot(Shifted).result
        IN  /\ frame.result.electric = other.electric
            /\ frame.result.magnetic = other.magnetic

\* C7 amended: the two calls return matrices that agree within floating-point
\* rounding of the phase argument: every entry differs by at most 16 units of
\* roundoff of the largest term of k*x - omega*t + phase (at least 1), times
\* the amplitude of the field.
C7_Amended ==
    Returned =>
        LET other == plane_wave_snapshot(Shifted).result
        IN  \A r \in 1..3, i \in Samples :
              /\ CloseInPhase(frame.result.electric[r][i], other.electric[r][i],
                              call.electric_amplitude)
              /\ CloseInPhase(frame.result.magnetic[r][i], other.magnetic[r][i],
                              TableB)

\* a call at a time other than 0 whose shifted twin differs in the last place
C7_Witness ==
    /\ Returned
    /\ call.time # 0
    /\ call.phase # 0
    /\ \E i \in Samples : Ey(i) # plane_wave_snapshot(Shifted).result.electric[Row(1)][i]

\* C8: for identical other arguments, circular-left and circular-right have the
\* same Ey and the same Bz, and Ez and By of one are the negation of the other's
\* at every sample point.
C8_Handedness ==
    (Returned /\ call.polarization = "circular-left") =>
        LET right == plane_wave_snapshot(
                         [call EXCEPT !.polarization = "circular-right"]).result
        IN  \A i \in Samples :
              /\ Ey(i) = right.electric[Row(1)][i]
              /\ Bz(i) = right.magnetic[Row(2)][i]
              /\ Ez(i) = -right.electric[Row(2)][i]
              /\ By(i) = -right.magnetic[Row(1)][i]

\* a circular-left snapshot with nonzero Ez and By at some sample
C8_Witness ==
    /\ Returned
    /\ call.polarization = "circular-left"
    /\ call.time # 0
    /\ \E i \in Samples : Ez(i) # 0 /\ By(i) # 0 /\ Ey(i) # 0

\* C9 as stated: in both circular modes Ey^2 + Ez^2 equals A^2 and
\* By^2 + Bz^2 equals (A / v)^2 at every sample point.
C9_AsStated ==
    (Returned /\ Circular) =>
        \A i \in Samples :
            /\ Ey(i) * Ey(i) + Ez(i) * Ez(i)
                  = call.electric_amplitude * call.electric_amplitude
            /\ By(i) * By(i) + Bz(i) * Bz(i) = TableB * TableB

\* C9 amended: in both circular modes Ey^2 + Ez^2 equals A^2 and By^2 + Bz^2
\* equals (A / v)^2 at every sample point within floating-point tolerance, a
\* relative error of 16 units of roundoff.
C9_Amended ==
    (Returned /\ Circular) =>
        \A i \in Samples :
            /\ Close(Ey(i) * Ey(i) + Ez(i) * Ez(i),
                     call.electric_amplitude * call.electric_amplitude)
            /\ Close(By(i) * By(i) + Bz(i) * Bz(i), TableB * TableB)

\* a circular snapshot where the squares miss A^2 by rounding
C9_Witness ==
    /\ Returned
    /\ Circular
    /\ \E i \in Samples :
          Ey(i) * Ey(i) + Ez(i) * Ez(i)
              # call.electric_amplitude * call.electric_amplitude

----------------------------------------------------------------------------
(* build_em_wave_animation and its update callback *)

MaxUpdates == 6

\* the arguments of build_em_wave_animation that reach the evaluator
Config(duration, fps, spatial_extent, num_points, medium, mediums, phase, polarization) ==
    [duration |-> duration, fps |-> fps, spatial_extent |-> spatial_extent,
     num_points |-> num_points, wavelength |-> FMul(2 * Unit, Pi),
     electric_amplitude |-> Unit, medium |-> medium, mediums |-> mediums,
     phase |-> phase, polarization |-> polarization]

\* mediums=None, and mediums=[...]
None == [given |-> FALSE, list |-> <<>>]
Some(list) == [given |-> TRUE, list |-> list]

Configs ==
    {Config(duration, fps, extent, 3, medium, mediums, phase, polarization) :
        duration \in {Unit \div 2, Unit},
        fps \in {-1, 0, 2, 5},
        extent \in {<<0, Pi>>, <<0, 0>>, <<Unit, 0>>},
        medium \in {VACUUM, GLASS},
        mediums \in {None, Some(<<>>), Some(<<VACUUM, GLASS>>)},
        phase \in {0, Round(3 * Unit, 10)},
        polarization \in {"linear-y", "circular-right", "elliptical"}}

\* if fps <= 0: raise ValueError
FpsRejected(config) == config.fps <= 0

\* if stop <= start: raise ValueError
ExtentRejected(config) == config.spatial_extent[2] <= config.spatial_extent[1]

\* display_mediums = mediums if mediums is not None else [medium]
DisplayMediums(config) ==
    IF config.mediums.given THEN config.mediums.list ELSE <<config.medium>>

\* np.linspace(start, stop, num): start + i * step, the last sample set to stop
Linspace(start, stop, num) ==
    Array1D([i \in 1..num |->
        IF i = num THEN stop
        ELSE FAdd(start, FMul((i - 1) * Unit,
                               FDiv(FSub(stop, start), (num - 1) * Unit)))])

\* frames = int(duration * fps)
Frames(config) == FMul(config.duration, config.fps * Unit) \div Unit

\* dt = 1.0 / fps
Dt(config) == FDiv(Unit, config.fps * Unit)

\* what build_em_wave_animation leaves behind: an error, or the closure of update
Animation(pc, config, error, positions, frames, dt, display_mediums) ==
    [pc |-> pc, config |-> config, error |-> error, positions |-> positions,
     frames |-> frames, dt |-> dt, display_mediums |-> display_mediums,
     next |-> 0, log |-> <<>>]

Unbuilt(pc, config, error) ==
    Animation(pc, config, error, Array1D(<<>>), 0, 0, <<>>)

\* build_em_wave_animation up to the FuncAnimation it returns
build_em_wave_animation(config) ==
    IF FpsRejected(config) THEN Unbuilt("rejected", config, "ValueError: fps")
    ELSE IF ExtentRejected(config)
    THEN Unbuilt("rejected", config, "ValueError: spatial_extent")
    ELSE IF DisplayMediums(config) = <<>>
    THEN \* max() of no medium, where the axis limits are set
         Unbuilt("rejected", config, "ValueError: max")
    ELSE Animation("built", config, "",
                   Linspace(config.spatial_extent[1], config.spatial_extent[2],
                            config.num_points),
                   Frames(config), Dt(config), DisplayMediums(config))

\* time = frame_index * dt, with the index one too high
FrameTime_OffByOne(frame_index, dt) == FMul((frame_index + 1) * Unit, dt)

\* time = frame_index * dt
FrameTime(frame_index, dt) == FMul(frame_index * Unit, dt)

\* the evaluator call update makes for medium med
UpdateCall(a, time, med) ==
    Args(a.positions, time, a.config.phase, a.config.wavelength,
         a.config.electric_amplitude, med, a.config.polarization)

\* update(frame_index): one evaluator call per displayed medium, in order; a
\* call that raises ends the loop
update(a, frame_index) ==
    LET time == FrameTime(frame_index, a.dt)
        all == [i \in 1..Len(a.display_mediums) |->
                   UpdateCall(a, time, a.display_mediums[i])]
        raising == {i \in 1..Len(all) :
                       plane_wave_snapshot(all[i]).outcome # "returned"}
        last == IF raising = {} THEN Len(all)
                ELSE CHOOSE i \in raising : \A j \in raising : i <= j
    IN  [frame_index |-> frame_index, time |-> time,
         calls |-> SubSeq(all, 1, last), raised |-> raising # {}]

\* a caller holds the arguments of build_em_wave_animation
InitAnim ==
    /\ call = HeapArgs(Array1D(<<>>), 0, "linear-y")
    /\ frame = NotCalled
    /\ handed = NothingHanded
    /\ heap = <<>>
    /\ snaps = <<>>
    /\ views = {}
    /\ writes = 0
    /\ \E config \in Configs : anim = Unbuilt("configured", config, "")

Build ==
    /\ anim.pc = "configured"
    /\ anim' = build_em_wave_animation(anim.config)
    /\ UNCHANGED <<call, frame, handed, heap, snaps, views, writes>>

\* FuncAnimation draws frame anim.next: frames 0 .. frames-1 in order, then
\* again from 0 (repeat=True); an exception in update ends the animation
Update ==
    /\ anim.pc = "built"
    /\ anim.frames > 0
    /\ Len(anim.log) < MaxUpdates
    /\ LET drawn == update(anim, anim.next)
       IN  anim' = [anim EXCEPT !.log = Append(@, drawn),
                                !.next = (@ + 1) % anim.frames,
                                !.pc = IF drawn.raised THEN "failed" ELSE @]
    /\ UNCHANGED <<call, frame, handed, heap, snaps, views, writes>>

NextAnim == Build \/ Update

SpecAnim == InitAnim /\ [][NextAnim]_vars

\* C11 claims: the frames the animation has drawn and the calls of each

Drawn == IF anim.pc \in {"built", "failed"} THEN 1..Len(anim.log) ELSE {}

\* frame_index / fps as the claim writes the time of a frame
TimeAsStated(frame_index) == FDiv(frame_index * Unit, anim.config.fps * Unit)

\* the arguments every call of the animation shares
SameArguments(c) ==
    /\ c.positions = Linspace(anim.config.spatial_extent[1],
                              anim.config.spatial_extent[2], anim.config.num_points)
    /\ c.phase = anim.config.phase
    /\ c.wavelength = anim.config.wavelength
    /\ c.electric_amplitude = anim.config.electric_amplitude
    /\ c.polarization = anim.config.polarization

\* time is strictly increasing in frame_index over the frames drawn
TimeIncreasing ==
    \A i, j \in Drawn :
        anim.log[i].frame_index < anim.log[j].frame_index =>
            anim.log[i].time < anim.log[j].time

\* fps <= 0 or stop <= start: rejected, and no evaluator call was made
RejectedBeforeCalls ==
    (/\ anim.pc \notin {"none", "configured"}
     /\ anim.config.fps <= 0 \/ anim.config.spatial_extent[2] <= anim.config.spatial_extent[1])
        => anim.pc = "rejected" /\ anim.log = <<>>

\* C11 as stated: each update(frame_index) calls the evaluator once, with
\* time = frame_index / fps, for frame_index in 0 .. int(duration*fps)-1, the
\* time strictly increasing in frame_index and the other arguments the same in
\* every frame; fps <= 0 or stop <= start is rejected before any evaluator call.
C11_AsStated ==
    /\ \A j \in Drawn :
          LET e == anim.log[j]
          IN  /\ e.frame_index \in 0..(Frames(anim.config) - 1)
              /\ Len(e.calls) = 1
              /\ \A i \in 1..Len(e.calls) :
                    /\ e.calls[i].time = TimeAsStated(e.frame_index)
                    /\ SameArguments(e.calls[i])
    /\ TimeIncreasing
    /\ RejectedBeforeCalls

\* C11 amended: each update(frame_index) calls the evaluator once per displayed
\* medium, in order (once when no mediums list is given), the loop ending at the
\* first call that raises; every call of the frame has
\* time = frame_index * (1.0 / fps), equal to frame_index / fps within
\* floating-point rounding; the frames run 0 .. int(duration*fps)-1 in order and
\* repeat, the time strictly increasing in frame_index and the other arguments
\* the same in every call; fps <= 0 or stop <= start is rejected before any
\* evaluator call.
C11_Amended ==
    /\ \A j \in Drawn :
          LET e == anim.log[j]
              shown == DisplayMediums(anim.config)
              n == Len(e.calls)
          IN  /\ e.frame_index = (j - 1) % Frames(anim.config)
              /\ e.frame_index \in 0..(Frames(anim.config) - 1)
              /\ n >= 1 /\ n <= Len(shown)
              /\ ~anim.config.mediums.given => n = 1
              /\ \A i \in 1..(n - 1) :
                    plane_wave_snapshot(e.calls[i]).outcome = "returned"
              /\ n < Len(shown) =>
                    plane_wave_snapshot(e.calls[n]).outcome # "returned"
              /\ \A i \in 1..n :
                    /\ e.calls[i].medium = shown[i]
                    /\ e.calls[i].time
                          = FMul(e.frame_index * Unit, FDiv(Unit, anim.config.fps * Unit))
                    /\ Close(e.calls[i].time, TimeAsStated(e.frame_index))
                    /\ SameArguments(e.calls[i])
    /\ TimeIncreasing
    /\ RejectedBeforeCalls

\* a comparison of two mediums at 5 frames per second that has drawn frame 3,
\* with two calls at a time other than 3 / 5, and has started over at frame 0
C11_Witness ==
    /\ anim.pc = "built"
    /\ anim.config.fps = 5
    /\ \E j \in Drawn :
          /\ anim.log[j].frame_index = 3
          /\ Len(anim.log[j].calls) = 2
          /\ anim.log[j].calls[2].medium = GLASS
          /\ anim.log[j].calls[2].time # TimeAsStated(3)
    /\ \E j \in Drawn : j > 1 /\ anim.log[j].frame_index = 0

====
